---- MODULE Spec2Model ----
(***************************************************************************)
(* Model of omniTask's Workflow (src/omniTask/core/workflow.py).           *)
(*                                                                         *)
(* Spec      : Workflow.run(), the round-based executor, with one          *)
(*             registered task group.                                      *)
(* GroupSpec : Workflow._execute_task_group(), the semaphore-bounded       *)
(*             fan-out over the items of a parent result.                  *)
(***************************************************************************)
EXTENDS Integers, Sequences, FiniteSets, TLC

\* ---------------------------------------------------------------- bounds
MaxDeps == 2

MaxPathLen == 2

MaxItems == 2

MaxCap == 2

MaxBatch == 3

\* ------------------------------------------------------------- universes
\* Names of the tasks of the workflow (Workflow.tasks keys).
TaskNames == {"a", "b", "c"}

\* Names of the registered groups (Workflow.task_groups keys).
GroupNames == {"g"}

\* Names a task may declare as a dependency: tasks, and the group name,
\* which is a name that is not a task.
DepNames == TaskNames \cup GroupNames

\* Segments a forEach path is made of.
Segs == {"a", "b"}

DepSets == {S \in SUBSET DepNames : Cardinality(S) <= MaxDeps}

Paths == UNION {[1..n -> Segs] : n \in 1..MaxPathLen}

\* ---------------------------------------------------------------- values
\* An output value is a chain of single-key mappings ending in a leaf:
\*   keys = <<k1, k2>>, leaf = "list", items = <<1, 2>>  is {k1: {k2: [1, 2]}}
\*   keys = <<>>, leaf = "dict"                          is {}
EmptyDict == [keys |-> <<>>, leaf |-> "dict", items |-> <<>>]

ListOf(n) == [i \in 1..n |-> i]

IsDict(v) == v.keys # <<>> \/ v.leaf = "dict"

IsList_Any(v) == TRUE

IsList(v) == v.keys = <<>> /\ v.leaf = "list"

HasKey(v, k) == v.keys # <<>> /\ Head(v.keys) = k

Child(v) == [v EXCEPT !.keys = Tail(@)]

\* for part in parts: current = current[part] if it is a mapping holding
\* part, else the walk fails.
RECURSIVE Walk(_, _)
Walk(current, parts) ==
    IF parts = <<>> THEN [ok |-> TRUE, val |-> current]
    ELSE IF IsDict(current) /\ HasKey(current, Head(parts))
         THEN Walk(Child(current), Tail(parts))
         ELSE [ok |-> FALSE, val |-> current]

\* The later segments of a path: path.split('.')[1:].
PathTail(path) == Tail(path)

SegsOf(path) == {path[i] : i \in 1..Len(path)}

Prefixes(path) == {SubSeq(path, 1, m) : m \in 0..Len(path)}

Chains(K, n) == UNION {[1..m -> K] : m \in 0..n}

\* The values nested along the key chains ks, ending in {} or in a list.
Values(ks, lists) ==
    {[keys |-> k, leaf |-> "dict", items |-> <<>>] : k \in ks}
    \cup {[keys |-> k, leaf |-> "list", items |-> l] : k \in ks, l \in lists}

\* The outputs a task may produce: mappings that follow the later segments
\* of the path for some way and end there in {} or in a list (a mapping that
\* leaves the path at some level behaves, for the walk, as one that ends in
\* {} at that level).
OutputsFor(path) ==
    {v \in Values(Prefixes(PathTail(path)),
                  {ListOf(n) : n \in 0..MaxItems}) : IsDict(v)}

\* --------------------------------------------------------------- results
\* TaskResult(success, output, error)
TaskResult(s, o, e) == [success |-> s, output |-> o, error |-> e]

\* What task.execute_with_timeout() can do: raise, return a failure, or
\* return a success with an output. run() looks into the output of a task
\* only when the task's name is a segment of the group's path; the output of
\* any other task is opaque to it and is taken to be {}.
Outcomes(path, t) ==
    {[kind |-> "raise", output |-> EmptyDict],
     [kind |-> "fail", output |-> EmptyDict]}
    \cup {[kind |-> "ok", output |-> o] :
            o \in IF t \in SegsOf(path) THEN OutputsFor(path) ELSE {EmptyDict}}

Perms(S) ==
    {s \in [1..Cardinality(S) -> S] :
        \A i, j \in 1..Cardinality(S) : i # j => s[i] # s[j]}

Range(s) == {s[i] : i \in 1..Len(s)}

\* ------------------------------------------------------------------ state
VARIABLES
    task_dependencies,  \* Workflow.task_dependencies: task -> declared names
    for_each,           \* group.config.for_each of the group, split at '.'
    pc,                 \* where run() is
    completed_tasks,    \* run(): completed_tasks
    results,            \* run(): results, name -> TaskResult
    tasks_to_execute,   \* run(): the round, in the order it is processed
    exec,               \* each task's _execute_task coroutine in this round
    idx,                \* position of the result loop in tasks_to_execute
    batch,              \* the derived tasks of the expansion in progress
    dispatched,         \* history: tasks whose _execute_task was started
    outcome,            \* history: how each task's execution ended
    triggered,          \* history: tasks whose completion matched the group
    expansions,         \* history: number of expansions of the group
    raised,             \* the error run() raised to its caller, if any
    dependency_outputs, \* each task's dependency_outputs, name -> output
    dependency_order,   \* each task's dependency_order, a list of names
    dispatch_count,     \* history: how many times each task was started
    rounds,             \* history: number of rounds started
    g_pc,               \* where _execute_task_group() is
    parent_result,      \* _execute_task_group: parent_result
    max_concurrent,     \* group_config.max_concurrent
    wf_tasks,           \* Workflow.tasks: the derived names it holds
    items,              \* _execute_task_group: items
    semaphore,          \* _execute_task_group: the semaphore's value
    group_tasks,        \* each derived task's execute_task coroutine
    group_results,      \* _execute_task_group: results, name -> TaskResult
    g_raised            \* the error _execute_task_group raised, if any

vars == <<task_dependencies, for_each, pc, completed_tasks, results,
          tasks_to_execute, exec, idx, batch, dispatched, outcome, triggered,
          expansions, raised, dependency_outputs, dependency_order,
          dispatch_count, rounds, g_pc, parent_result, max_concurrent,
          wf_tasks, items, semaphore, group_tasks, group_results, g_raised>>

groupVars == <<g_pc, parent_result, max_concurrent, wf_tasks, items,
               semaphore, group_tasks, group_results, g_raised>>

config == <<task_dependencies, for_each>>

history == <<dispatched, outcome, triggered, expansions>>

injected == <<dependency_outputs, dependency_order>>

counters == <<dispatch_count, rounds>>

NoOutputs == [n \in {} |-> EmptyDict]

NoResults == [n \in {} |-> TaskResult(TRUE, EmptyDict, "none")]

NoBatch == [total |-> 0, done |-> 0, failed |-> FALSE]

Terminal == {"drained", "halted", "raised"}

\* ------------------------------------------------- the dependency graph
\* _build_dependency_graph: task_dependents[dep] = the tasks declaring dep.
task_dependents(dep) == {t \in TaskNames : dep \in task_dependencies[t]}

\* _get_ready_tasks(completed_tasks)
GetReadyTasks_Any(completed) ==
    {t \in TaskNames :
        /\ t \notin completed
        /\ \/ task_dependencies[t] = {}
           \/ \E dep \in task_dependencies[t] : dep \in completed}

GetReadyTasks_None(completed) == {}

GetReadyTasks_Results(completed) ==
    {t \in TaskNames :
        /\ t \notin completed
        /\ \A dep \in task_dependencies[t] :
              dep \in completed \/ dep \in DOMAIN results}

GetReadyTasks_Again(completed) ==
    {t \in TaskNames :
        \A dep \in task_dependencies[t] : dep \in completed}

GetReadyTasks(completed) ==
    {t \in TaskNames :
        /\ t \notin completed
        /\ \A dep \in task_dependencies[t] : dep \in completed}

\* ------------------------------------------------------------- run()
Init ==
    /\ task_dependencies \in [TaskNames -> DepSets]
    /\ for_each \in Paths
    /\ pc = "select"
    /\ completed_tasks = {}
    /\ results = NoResults
    /\ tasks_to_execute = <<>>
    /\ exec = [t \in TaskNames |-> "idle"]
    /\ idx = 0
    /\ batch = NoBatch
    /\ dispatched = {}
    /\ outcome = [t \in TaskNames |-> "none"]
    /\ triggered = {}
    /\ expansions = 0
    /\ raised = "none"
    /\ dependency_outputs = [t \in TaskNames |-> NoOutputs]
    /\ dependency_order = [t \in TaskNames |-> <<>>]
    /\ dispatch_count = [t \in TaskNames |-> 0]
    /\ rounds = 0
    /\ g_pc = "idle"
    /\ parent_result = TaskResult(TRUE, EmptyDict, "none")
    /\ max_concurrent = 1
    /\ wf_tasks = {}
    /\ items = <<>>
    /\ semaphore = 0
    /\ group_tasks = <<>>
    /\ group_results = <<>>
    /\ g_raised = "none"

\* while True: ready_tasks = ...; if not ready_tasks: break (return results)
Drain ==
    /\ pc = "select"
    /\ GetReadyTasks(completed_tasks) = {}
    /\ pc' = "drained"
    /\ UNCHANGED <<groupVars, config, completed_tasks, results,
                   tasks_to_execute, exec, idx, batch, history, raised,
                   injected, counters>>

\* tasks_to_execute holds every ready task, once: the orders the round's
\* list may have.
RoundOrders_Capped(ready) == UNION {Perms({t}) : t \in ready}

RoundOrders(ready) == Perms(ready)

\* tasks_to_execute = [t for t in ready_tasks]: a set is iterated in no
\* particular order; asyncio.gather is then entered.
StartRound ==
    /\ pc = "select"
    /\ GetReadyTasks(completed_tasks) # {}
    /\ \E order \in RoundOrders(GetReadyTasks(completed_tasks)) :
          /\ tasks_to_execute' = order
          /\ exec' = [t \in TaskNames |->
                        IF t \in Range(order) THEN "pending" ELSE "idle"]
    /\ pc' = "gather"
    /\ rounds' = rounds + 1
    /\ UNCHANGED <<groupVars, config, completed_tasks, results, idx, batch,
                   history, raised, injected, dispatch_count>>

\* The position of the coroutine gather starts next.
NextPending ==
    {i \in 1..Len(tasks_to_execute) :
        /\ exec[tasks_to_execute[i]] = "pending"
        /\ \A j \in 1..(i - 1) : exec[tasks_to_execute[j]] # "pending"}

\* task.task_dependencies, the list a task declares: the names of its
\* dependency set, once each, in the order of NameOrder.
NameOrder == <<"a", "b", "c", "g">>

DeclaredOrder(t) ==
    SelectSeq(NameOrder, LAMBDA n : n \in task_dependencies[t])

\* list(self.task_dependencies[task_name]): a set of strings is iterated
\* in an order that differs from one interpreter process to the next.
SetOrders(deps) == Perms(deps)

\* _execute_task up to its await: dependency_outputs is built from
\* results[prev_task]; a missing key raises KeyError out of the coroutine,
\* before dependency_outputs and dependency_order are assigned.
StartTask ==
    /\ pc = "gather"
    /\ \E i \in NextPending :
         LET t == tasks_to_execute[i] IN
         /\ dispatched' = dispatched \cup {t}
         /\ dispatch_count' = [dispatch_count EXCEPT ![t] = @ + 1]
         /\ IF task_dependencies[t] \subseteq DOMAIN results
            THEN /\ exec' = [exec EXCEPT ![t] = "running"]
                 /\ outcome' = outcome
                 /\ dependency_outputs' =
                      [dependency_outputs EXCEPT ![t] =
                          [prev \in task_dependencies[t] |->
                              results[prev].output]]
                 /\ \E order \in SetOrders(task_dependencies[t]) :
                      dependency_order' =
                          [dependency_order EXCEPT ![t] = order]
            ELSE /\ exec' = [exec EXCEPT ![t] = "raised"]
                 /\ outcome' = [outcome EXCEPT ![t] = "raise"]
                 /\ UNCHANGED injected
    /\ UNCHANGED <<groupVars, config, pc, completed_tasks, results,
                   tasks_to_execute, idx, batch, triggered, expansions,
                   raised, rounds>>

\* result = await task.execute_with_timeout(); results[task_name] = result
FinishTask ==
    /\ pc = "gather"
    /\ \E t \in TaskNames :
         /\ exec[t] = "running"
         /\ \E o \in Outcomes(for_each, t) :
              /\ outcome' = [outcome EXCEPT ![t] = o.kind]
              /\ IF o.kind = "raise"
                 THEN /\ exec' = [exec EXCEPT ![t] = "raised"]
                      /\ results' = results
                 ELSE /\ exec' = [exec EXCEPT ![t] = "returned"]
                      /\ results' =
                           (t :> TaskResult(o.kind = "ok", o.output,
                                   IF o.kind = "ok" THEN "none"
                                   ELSE "returned"))
                           @@ results
    /\ UNCHANGED <<groupVars, config, pc, completed_tasks, tasks_to_execute,
                   idx, batch, dispatched, triggered, expansions, raised,
                   injected, counters>>

\* asyncio.gather(..., return_exceptions=True) returns when every coroutine
\* of the round has returned or raised.
GatherReturn ==
    /\ pc = "gather"
    /\ \A t \in Range(tasks_to_execute) : exec[t] \in {"returned", "raised"}
    /\ pc' = "process"
    /\ idx' = 1
    /\ UNCHANGED <<groupVars, config, completed_tasks, results,
                   tasks_to_execute, exec, batch, history, raised, injected,
                   counters>>

\* if isinstance(result, Exception): results[task_name] = TaskResult(False..)
RecordsException_Never(e) == FALSE

RecordsException(e) == e = "raised"

\* if not results[task_name].success: return results
Halts_Never(result) == FALSE

Halts(result) == ~result.success

\* One iteration of the result loop, up to the group loop.
ProcessResult ==
    /\ pc = "process"
    /\ LET t == tasks_to_execute[idx]
           recorded == IF RecordsException(exec[t])
                       THEN (t :> TaskResult(FALSE, EmptyDict, "raised"))
                            @@ results
                       ELSE results
       IN
       /\ results' = recorded
       /\ completed_tasks' = completed_tasks \cup {t}
       /\ IF t \notin DOMAIN recorded
          THEN pc' = "raised" /\ raised' = "KeyError"
          ELSE IF Halts(recorded[t])
               THEN pc' = "halted" /\ raised' = raised
               ELSE pc' = "groups" /\ raised' = raised
    /\ UNCHANGED <<groupVars, config, tasks_to_execute, exec, idx, batch,
                   history, injected, counters>>

\* any(dep == task_name for dep in group.config.for_each.split('.'))
TriggersGroup(path, task_name) ==
    \E i \in 1..Len(path) : path[i] = task_name

\* The result loop moves on to the next task, or the round is over.
Advance ==
    IF idx < Len(tasks_to_execute)
    THEN pc' = "process" /\ idx' = idx + 1
    ELSE pc' = "select" /\ idx' = 0

\* The group does not match the task just completed.
SkipGroup ==
    /\ pc = "groups"
    /\ ~TriggersGroup(for_each, tasks_to_execute[idx])
    /\ Advance
    /\ UNCHANGED <<groupVars, config, completed_tasks, results,
                   tasks_to_execute, exec, batch, history, raised, injected,
                   counters>>

\* The group matches: walk path_parts[1:] into results[task_name].output,
\* raise ValueError or create the group's tasks and start its batch.
ExpandGroup ==
    /\ pc = "groups"
    /\ TriggersGroup(for_each, tasks_to_execute[idx])
    /\ LET t == tasks_to_execute[idx]
           w == Walk(results[t].output, PathTail(for_each))
       IN
       /\ triggered' = triggered \cup {t}
       /\ IF ~w.ok
          THEN /\ pc' = "raised"
               /\ raised' = "ValueError: path not found"
               /\ UNCHANGED <<batch, expansions>>
          ELSE IF ~IsList(w.val)
          THEN /\ pc' = "raised"
               /\ raised' = "ValueError: expected list"
               /\ UNCHANGED <<batch, expansions>>
          ELSE /\ pc' = "batch"
               /\ raised' = raised
               /\ batch' = [total |-> Len(w.val.items), done |-> 0,
                            failed |-> FALSE]
               /\ expansions' = expansions + 1
    /\ UNCHANGED <<groupVars, config, completed_tasks, results,
                   tasks_to_execute, exec, idx, dispatched, outcome,
                   injected, counters>>

\* group.execute(): one derived task of the batch finishes, well or not.
DerivedFinish ==
    /\ pc = "batch"
    /\ batch.done < batch.total
    /\ \E ok \in BOOLEAN :
         batch' = [batch EXCEPT !.done = @ + 1,
                                !.failed = @ \/ ~ok]
    /\ UNCHANGED <<groupVars, config, pc, completed_tasks, results,
                   tasks_to_execute, exec, idx, history, raised, injected,
                   counters>>

\* The aggregated result of a batch of n derived tasks.
GroupResult(b) ==
    TaskResult(~b.failed,
               [keys |-> <<>>, leaf |-> "list", items |-> ListOf(b.total)],
               IF b.failed THEN "returned" ELSE "none")

\* if group_name not in next_task.dependency_order: append(group_name)
PublishOrder_Always(order, group_name) == Append(order, group_name)

PublishOrder(order, group_name) ==
    IF group_name \in Range(order) THEN order
    ELSE Append(order, group_name)

\* group_result = await group.execute(); results[group_name] = group_result;
\* the group's output is then handed to every task of
\* task_dependents[group_name].
BatchDone ==
    /\ pc = "batch"
    /\ batch.done = batch.total
    /\ results' = ("g" :> GroupResult(batch)) @@ results
    /\ dependency_outputs' =
         [t \in TaskNames |->
            IF t \in task_dependents("g")
            THEN ("g" :> GroupResult(batch).output) @@ dependency_outputs[t]
            ELSE dependency_outputs[t]]
    /\ dependency_order' =
         [t \in TaskNames |->
            IF t \in task_dependents("g")
            THEN PublishOrder(dependency_order[t], "g")
            ELSE dependency_order[t]]
    /\ batch' = NoBatch
    /\ Advance
    /\ UNCHANGED <<groupVars, config, completed_tasks, tasks_to_execute, exec,
                   history, raised, counters>>

Next ==
    \/ Drain
    \/ StartRound
    \/ StartTask
    \/ FinishTask
    \/ GatherReturn
    \/ ProcessResult
    \/ SkipGroup
    \/ ExpandGroup
    \/ DerivedFinish
    \/ BatchDone

Spec == Init /\ [][Next]_vars

\* ------------------------------------------------ _execute_task_group()
\* The items a resolved list may hold; a derived task is named after its
\* item (f"{group_name}_{item}").
Items == 1..MaxBatch

ItemLists == UNION {[1..n -> Items] : n \in 0..MaxBatch}

\* The outputs of a parent result: the whole path is walked into them.
ParentOutputs(path) ==
    {v \in Values(Chains(SegsOf(path), Len(path)), ItemLists) : IsDict(v)}

\* _extract_items_from_output(result, path)
ExtractItems(result, path) ==
    IF ~result.success
    THEN [ok |-> FALSE, error |-> "ValueError: failed task result",
          items |-> <<>>]
    ELSE LET w == Walk(result.output, path) IN
         IF ~w.ok
         THEN [ok |-> FALSE, error |-> "ValueError: path not found",
               items |-> <<>>]
         ELSE IF ~IsList(w.val)
         THEN [ok |-> FALSE, error |-> "ValueError: expected list",
               items |-> <<>>]
         ELSE [ok |-> TRUE, error |-> "none", items |-> w.val.items]

\* create_task: the first position of the list whose derived name is
\* already in Workflow.tasks (0 when there is none).
FirstCollision(existing, its) ==
    LET bad == {i \in 1..Len(its) :
                  \/ its[i] \in existing
                  \/ \E j \in 1..(i - 1) : its[j] = its[i]}
    IN IF bad = {} THEN 0
       ELSE CHOOSE i \in bad : \A j \in bad : i <= j

\* async with semaphore: a slot is taken when the value is positive.
CanAcquire_Always(value) == TRUE

CanAcquire(value) == value > 0

\* Leaving the async with block gives the slot back.
Release(value) == value + 1

runIdle ==
    /\ task_dependencies = [t \in TaskNames |-> {}]
    /\ pc = "idle"
    /\ completed_tasks = {}
    /\ results = NoResults
    /\ tasks_to_execute = <<>>
    /\ exec = [t \in TaskNames |-> "idle"]
    /\ idx = 0
    /\ batch = NoBatch
    /\ dispatched = {}
    /\ outcome = [t \in TaskNames |-> "none"]
    /\ triggered = {}
    /\ expansions = 0
    /\ raised = "none"
    /\ dependency_outputs = [t \in TaskNames |-> NoOutputs]
    /\ dependency_order = [t \in TaskNames |-> <<>>]
    /\ dispatch_count = [t \in TaskNames |-> 0]
    /\ rounds = 0

runVars == <<task_dependencies, pc, completed_tasks, results,
             tasks_to_execute, exec, idx, batch, dispatched, outcome,
             triggered, expansions, raised, dependency_outputs,
             dependency_order, dispatch_count, rounds>>

GroupInit ==
    /\ runIdle
    /\ for_each \in Paths
    /\ \E s \in BOOLEAN, o \in ParentOutputs(for_each) :
         parent_result =
            TaskResult(s, IF s THEN o ELSE EmptyDict,
                       IF s THEN "none" ELSE "returned")
    /\ max_concurrent \in 1..MaxCap
    /\ wf_tasks = {}
    /\ g_pc = "start"
    /\ items = <<>>
    /\ semaphore = 0
    /\ group_tasks = <<>>
    /\ group_results = <<>>
    /\ g_raised = "none"

\* items = _extract_items_from_output(...); the loop creating the derived
\* tasks; results = {}; semaphore = asyncio.Semaphore(max_concurrent)
CreateGroupTasks ==
    /\ g_pc = "start"
    /\ LET x == ExtractItems(parent_result, for_each)
           c == FirstCollision(wf_tasks, x.items)
       IN
       IF ~x.ok
       THEN /\ g_pc' = "raised"
            /\ g_raised' = x.error
            /\ UNCHANGED <<items, wf_tasks, semaphore, group_tasks>>
       ELSE IF c # 0
       THEN /\ g_pc' = "raised"
            /\ g_raised' = "ValueError: task already exists"
            /\ items' = x.items
            /\ wf_tasks' = wf_tasks \cup {x.items[j] : j \in 1..(c - 1)}
            /\ UNCHANGED <<semaphore, group_tasks>>
       ELSE /\ g_pc' = "gather"
            /\ g_raised' = g_raised
            /\ items' = x.items
            /\ wf_tasks' = wf_tasks \cup Range(x.items)
            /\ semaphore' = max_concurrent
            /\ group_tasks' = [i \in 1..Len(x.items) |-> "waiting"]
    /\ UNCHANGED <<runVars, for_each, parent_result, max_concurrent,
                   group_results>>

\* execute_task: async with semaphore is entered.
AcquireSlot ==
    /\ g_pc = "gather"
    /\ \E i \in 1..Len(items) :
         /\ group_tasks[i] = "waiting"
         /\ CanAcquire(semaphore)
         /\ semaphore' = semaphore - 1
         /\ group_tasks' = [group_tasks EXCEPT ![i] = "running"]
    /\ UNCHANGED <<runVars, for_each, parent_result, max_concurrent,
                   wf_tasks, items, group_results, g_pc, g_raised>>

\* execute_task: the derived task returns or raises, its result is recorded
\* and the async with block is left.
DerivedTaskDone ==
    /\ g_pc = "gather"
    /\ \E i \in 1..Len(items), kind \in {"ok", "fail", "raise"} :
         /\ group_tasks[i] = "running"
         /\ group_results' =
              (items[i] :> TaskResult(kind = "ok", EmptyDict,
                              CASE kind = "ok" -> "none"
                                [] kind = "fail" -> "returned"
                                [] OTHER -> "raised"))
              @@ group_results
         /\ semaphore' = Release(semaphore)
         /\ group_tasks' = [group_tasks EXCEPT ![i] = "done"]
    /\ UNCHANGED <<runVars, for_each, parent_result, max_concurrent,
                   wf_tasks, items, g_pc, g_raised>>

\* await asyncio.gather(...); return results
GroupReturn ==
    /\ g_pc = "gather"
    /\ \A i \in 1..Len(items) : group_tasks[i] = "done"
    /\ g_pc' = "returned"
    /\ UNCHANGED <<runVars, for_each, parent_result, max_concurrent,
                   wf_tasks, items, semaphore, group_tasks, group_results,
                   g_raised>>

GroupNext ==
    \/ CreateGroupTasks
    \/ AcquireSlot
    \/ DerivedTaskDone
    \/ GroupReturn

GroupSpec == GroupInit /\ [][GroupNext]_vars

\* ------------------------------------------------------ graph vocabulary
RECURSIVE Reach(_, _)
Reach(S, n) ==
    IF n = 0 THEN S
    ELSE Reach(S \cup UNION {task_dependencies[x] : x \in S \cap TaskNames},
               n - 1)

\* The names t depends on, directly or transitively.
TransDeps(t) == Reach(task_dependencies[t], Cardinality(DepNames))

\* Acyclic, and every declared dependency names a task.
GraphOK ==
    \A t \in TaskNames :
        /\ task_dependencies[t] \subseteq TaskNames
        /\ t \notin TransDeps(t)

\* t can never become ready: it depends, directly or transitively, on a
\* name that is not a task or on a task of a cycle (itself included).
Blocked(t) ==
    \/ t \in TransDeps(t)
    \/ \E d \in TransDeps(t) : d \notin TaskNames \/ d \in TransDeps(d)

Failed(t) == outcome[t] \in {"fail", "raise"}

\* A measure of the work run() has left: the tasks not yet completed weigh
\* most, then the steps left in the current round and expansion. A run whose
\* every step lowers it, and which can take a step whenever it has not
\* returned or raised, terminates.
RunMeasure ==
    LET n == Cardinality(TaskNames)
        atSelect == 2 * n + 3
        weight == atSelect + MaxItems + 10
        pending == Cardinality({t \in TaskNames : exec[t] = "pending"})
        running == Cardinality({t \in TaskNames : exec[t] = "running"})
        phase == CASE pc = "select" -> atSelect
                   [] pc = "gather" -> 2 + 2 * pending + running
                   [] pc = "process" -> 1
                   [] pc = "groups" -> atSelect + MaxItems + 3
                   [] pc = "batch" -> atSelect + 2 + (batch.total - batch.done)
                   [] OTHER -> 0
    IN IF pc \in Terminal THEN 0
       ELSE weight * Cardinality(TaskNames \ completed_tasks) + phase

\* run() has returned or raised, or it can take a step.
Progresses == pc \in Terminal \/ ENABLED Next

\* ----------------------------------------------------------------- claims

\* C1: a task is dispatched only after every name of its declared
\* dependency set is in completed_tasks and has an entry in results, and no
\* dependency of a started task is still waiting or executing.
C1_DispatchAfterDeps ==
    \A t \in dispatched :
        /\ task_dependencies[t] \subseteq completed_tasks
        /\ task_dependencies[t] \subseteq DOMAIN results
        /\ \A d \in task_dependencies[t] \cap TaskNames :
              exec[d] \notin {"pending", "running"}

C1_Witness ==
    \E t \in TaskNames :
        /\ exec[t] = "running"
        /\ Cardinality(task_dependencies[t]) >= 2

\* C2 as claimed: for an acyclic graph whose dependencies all name tasks,
\* run() ends with an entry for every task in the returned map.
C2_Original ==
    (GraphOK /\ pc \in Terminal) => TaskNames \subseteq DOMAIN results

\* C2 as amended: for an acyclic graph whose dependencies all name tasks,
\* run() terminates; when it ends drained (no task failed, no expansion
\* raised) the returned map has an entry for every task, and when it ends
\* halted the map holds a failed entry.
C2_TerminatesComplete ==
    /\ [][GraphOK => RunMeasure' < RunMeasure]_vars
    /\ [](GraphOK =>
            /\ Progresses
            /\ pc = "drained" => TaskNames \subseteq DOMAIN results
            /\ pc = "halted" =>
                  \E t \in DOMAIN results : ~results[t].success)

C2_Witness ==
    /\ GraphOK
    /\ pc = "drained"
    /\ TaskNames \subseteq DOMAIN results
    /\ \E t \in TaskNames : Cardinality(task_dependencies[t]) >= 2

C4_Original ==
    pc = "halted" => Range(tasks_to_execute) \subseteq DOMAIN results

Running == {i \in 1..Len(group_tasks) : group_tasks[i] = "running"}

C7_BoundedConcurrency ==
    g_pc \in {"gather", "returned"} =>
        /\ Cardinality(Running) <= max_concurrent
        /\ semaphore = max_concurrent - Cardinality(Running)

C7_Witness ==
    /\ g_pc = "gather"
    /\ Cardinality(Running) = max_concurrent
    /\ \E i \in 1..Len(group_tasks) : group_tasks[i] = "waiting"
    /\ \E n \in DOMAIN group_results : group_results[n].error = "raised"

\* C8 as claimed: for every resolved item list the batch finishes and every
\* item of the list has its recorded outcome.
C8_Original ==
    (ExtractItems(parent_result, for_each).ok
        /\ g_pc \in {"returned", "raised"}) =>
        /\ g_pc = "returned"
        /\ \A i \in 1..Len(items) : items[i] \in DOMAIN group_results

\* C9 as claimed: a task's completion triggers the group only if the first
\* segment of the group's path is the task's name.
C9_Original == \A t \in triggered : for_each[1] = t

\* C10 as claimed: the group is expanded at most once in a run.
C10_Original == expansions <= 1

\* C11: when a completed task triggers the group and the later segments of
\* the path do not lead, mapping by mapping, to a list in the task's output,
\* the expansion step makes run() raise a ValueError and nothing else: no
\* entry of results is written or changed, no batch is started, no expansion
\* is counted; and run() takes no step after it has raised.
ResolvesToList(output, tail) == output.keys = tail /\ output.leaf = "list"

C11_ExpansionErrorRaised ==
    /\ [][(/\ pc = "groups"
           /\ TriggersGroup(for_each, tasks_to_execute[idx])
           /\ ~ResolvesToList(results[tasks_to_execute[idx]].output,
                              PathTail(for_each)))
          => /\ pc' = "raised"
             /\ raised' \in {"ValueError: path not found",
                             "ValueError: expected list"}
             /\ results' = results
             /\ batch' = batch
             /\ expansions' = expansions]_vars
    /\ [](pc = "raised" => ~ENABLED Next)

C11_Witness ==
    /\ pc = "raised"
    /\ raised = "ValueError: path not found"
    /\ Len(for_each) >= 2
    /\ "g" \notin DOMAIN results

\* C12: while a round is in flight its list holds, once each, exactly the
\* tasks that are not completed and whose every declared dependency is
\* completed; when gather returns every one of them has been started.
C12_RoundIsReadySet ==
    /\ pc = "gather" =>
          /\ Range(tasks_to_execute) =
                {t \in TaskNames :
                    /\ t \notin completed_tasks
                    /\ task_dependencies[t] \subseteq completed_tasks}
          /\ Len(tasks_to_execute) = Cardinality(Range(tasks_to_execute))
    /\ (pc = "process" /\ idx = 1) =>
          \A t \in Range(tasks_to_execute) :
              t \in dispatched /\ exec[t] \in {"returned", "raised"}

C12_Witness ==
    /\ pc = "gather"
    /\ Len(tasks_to_execute) >= 2
    /\ \A t \in Range(tasks_to_execute) : exec[t] = "running"
    /\ \E t \in TaskNames :
         t \notin completed_tasks /\ t \notin Range(tasks_to_execute)

\* C13 as claimed: the expansion of the group is evaluated for a task whose
\* name is the first segment of the path even when its result is a failure,
\* before the run halts.
C13_Original ==
    (pc = "halted" /\ for_each[1] = tasks_to_execute[idx]) =>
        tasks_to_execute[idx] \in triggered

\* C13 as amended: a task of the round is marked completed, then its result
\* is checked, and the expansion of the group is evaluated for it only when
\* the result is a success: a failed task halts the run with no expansion
\* evaluated for it, and every task that triggered the group is completed
\* and has a successful entry.
C13_FailureCheckedFirst ==
    /\ pc \in {"groups", "batch", "halted"} =>
          tasks_to_execute[idx] \in completed_tasks
    /\ pc = "halted" =>
          /\ ~results[tasks_to_execute[idx]].success
          /\ tasks_to_execute[idx] \notin triggered
    /\ \A t \in triggered :
          /\ t \in completed_tasks
          /\ t \in DOMAIN results
          /\ results[t].success

C13_Witness ==
    /\ pc = "halted"
    /\ for_each[1] = tasks_to_execute[idx]
    /\ Len(for_each) = 1
    /\ expansions = 0

\* C14 as claimed: when run() has ended, every task whose execution raised
\* has an entry in the map, a failure carrying the raised error; and when
\* the run halted the map holds the failed entry of the halting task.
C14_Original ==
    pc \in Terminal =>
        /\ \A t \in TaskNames :
              outcome[t] = "raise" =>
                  /\ t \in DOMAIN results
                  /\ ~results[t].success
                  /\ results[t].error = "raised"
        /\ pc = "halted" =>
              /\ tasks_to_execute[idx] \in DOMAIN results
              /\ ~results[tasks_to_execute[idx]].success

\* C15: once the group has an entry in results, every task that declares
\* the group's name holds the output of that entry under the group's name
\* in its dependency_outputs and the group's name exactly once in its
\* dependency_order; before, it holds neither; and the entry and the fields
\* of those tasks change only in the step that ends a batch whose every
\* derived task has finished.
Occurrences(order, n) == Cardinality({i \in 1..Len(order) : order[i] = n})

C15_PublishedAfterBatch ==
    /\ [](\A t \in task_dependents("g") :
            IF "g" \in DOMAIN results
            THEN /\ "g" \in DOMAIN dependency_outputs[t]
                 /\ dependency_outputs[t]["g"] = results["g"].output
                 /\ Occurrences(dependency_order[t], "g") = 1
            ELSE /\ "g" \notin DOMAIN dependency_outputs[t]
                 /\ Occurrences(dependency_order[t], "g") = 0)
    /\ [][(\/ ("g" \in DOMAIN results') # ("g" \in DOMAIN results)
           \/ /\ "g" \in DOMAIN results
              /\ results'["g"] # results["g"]
           \/ \E t \in task_dependents("g") :
                 \/ dependency_outputs'[t] # dependency_outputs[t]
                 \/ dependency_order'[t] # dependency_order[t])
          => /\ pc = "batch"
             /\ batch.done = batch.total
             /\ results'["g"] = GroupResult(batch)]_vars

C15_Witness ==
    /\ expansions = 2
    /\ pc = "drained"
    /\ "g" \in DOMAIN results
    /\ Len(results["g"].output.items) = 2
    /\ task_dependents("g") # {}

\* C16: the group's name is never in completed_tasks, and a task that
\* declares it is never in a round, never started and never has an entry in
\* results, whether or not the group has been expanded; its waiting is not
\* an error: run() can always take a step until it has ended, and it ends
\* drained when no task failed and no expansion raised.
C16_GroupDependentNeverRuns ==
    /\ "g" \notin completed_tasks
    /\ \A t \in task_dependents("g") :
          /\ exec[t] = "idle"
          /\ t \notin dispatched
          /\ t \notin Range(tasks_to_execute)
          /\ t \notin DOMAIN results
    /\ Progresses
    /\ (pc \in Terminal /\ raised = "none"
          /\ \A t \in TaskNames : ~Failed(t)) => pc = "drained"

C16_Witness ==
    /\ pc = "drained"
    /\ "g" \in DOMAIN results
    /\ results["g"].success
    /\ \E t \in TaskNames :
         /\ task_dependencies[t] = {"g"}
         /\ "g" \in DOMAIN dependency_outputs[t]
         /\ t \notin DOMAIN results

\* C17: every declared dependency of a started task has an entry in results
\* with success = true, and the outputs injected into a started task are
\* those of successful entries.
C17_DispatchAfterSuccess ==
    \A t \in dispatched :
        /\ \A d \in task_dependencies[t] :
              d \in DOMAIN results /\ results[d].success
        /\ \A d \in DOMAIN dependency_outputs[t] :
              /\ d \in DOMAIN results
              /\ results[d].success
              /\ dependency_outputs[t][d] = results[d].output

C17_Witness ==
    \E t \in TaskNames :
        /\ exec[t] = "running"
        /\ \E d \in task_dependencies[t] :
              dependency_outputs[t][d] # EmptyDict

\* C18: no task is started twice; the tasks of a round in flight are not
\* completed, and when the round is over every one of them is, so each
\* round that does not halt adds at least one task to completed_tasks,
\* which never loses one; the rounds are no more than the tasks.
C18_OnceAndBoundedRounds ==
    /\ [](/\ \A t \in TaskNames : dispatch_count[t] <= 1
          /\ rounds <= Cardinality(TaskNames)
          /\ pc = "gather" =>
                /\ tasks_to_execute # <<>>
                /\ Range(tasks_to_execute) \cap completed_tasks = {}
          /\ (pc \in {"select", "drained"} /\ rounds > 0) =>
                /\ tasks_to_execute # <<>>
                /\ Range(tasks_to_execute) \subseteq completed_tasks
          /\ pc \in {"select", "drained"} =>
                rounds <= Cardinality(completed_tasks))
    /\ [][completed_tasks \subseteq completed_tasks']_vars

C18_Witness ==
    /\ pc = "drained"
    /\ rounds = Cardinality(TaskNames)
    /\ \A t \in TaskNames : dispatch_count[t] = 1

\* C19 as claimed: an entry of results, once recorded under a name, is
\* never replaced or changed.
C19_Original ==
    [][\A n \in DOMAIN results :
          n \in DOMAIN results' /\ results'[n] = results[n]]_vars

\* C20 as claimed: the dependency_order of a task being executed is its
\* declared list, same names at the same positions, and its
\* dependency_outputs maps exactly the declared names to the outputs
\* recorded for them.
C20_Original ==
    \A t \in TaskNames :
        exec[t] = "running" =>
            /\ dependency_order[t] = DeclaredOrder(t)
            /\ DOMAIN dependency_outputs[t] = task_dependencies[t]
            /\ \A d \in task_dependencies[t] :
                  dependency_outputs[t][d] = results[d].output

====
